---- MODULE Spec2Model ----
(***************************************************************************)
(* Primed Listening content script (content.js): the subtitle-change       *)
(* detector and the pause / resume / lock state machine, with the settings *)
(* load, the toggle hotkey, the interaction keys and the resume timers.    *)
(* Times are integer milliseconds (the unit setTimeout is given).          *)
(***************************************************************************)
EXTENDS Integers, Sequences, FiniteSets, TLC

\* ------------------------------------------------------------------ bounds

\* Resume timeouts that may be pending at once (timer ids are 1..MaxTimers).
MaxTimers == 2
\* chrome.storage.sync.get calls that may be awaiting their callback at once.
MaxLoads == 1

\* ------------------------------------------------------------------ values

\* state.timerId when it is null: timer ids are positive.
NullTimer == 0

Min(a, b) == IF a < b THEN a ELSE b
Max(a, b) == IF a > b THEN a ELSE b

\* settings.min_chars
MinChars == 2

\* The fullwidth parentheses U+FF08 and U+FF09, one character each.
FullwidthOpen == "U+FF08"
FullwidthClose == "U+FF09"

\* Characters String.prototype.trim and the regex class \s treat as blank.
Whitespace == {" ", "\n", "\r"}

\* Subtitle lines the platform's getText can return, as sequences of
\* characters: a one-character line, its superstrings, a padded line, lines
\* with bracketed annotations and a blank line.
Texts ==
    { <<"a">>,
      <<"a", "b">>,
      <<" ", "a", "b", "\n">>,
      <<"a", "b", "c">>,
      <<"(", "x", ")", "a">>,
      <<"{", "x", "}", "a", " ", "b">>,
      <<" ">> }

\* Key chords: [code, key, altKey, ctrlKey, shiftKey, metaKey] of a keydown.
Chord(code, key, alt) ==
    [code |-> code, key |-> key, altKey |-> alt, ctrlKey |-> FALSE,
     shiftKey |-> FALSE, metaKey |-> FALSE]

KeyEvents ==
    { Chord("Space", " ", FALSE), Chord("KeyK", "k", FALSE),
      Chord("KeyP", "p", FALSE), Chord("KeyP", "p", TRUE),
      Chord("KeyX", "x", FALSE) }

Hotkey(code, alt) ==
    [code |-> code, altKey |-> alt, ctrlKey |-> FALSE, shiftKey |-> FALSE,
     metaKey |-> FALSE]

\* What the popup can have saved into chrome.storage.sync (all six keys at
\* once, numbers unvalidated), in milliseconds.
Profile(ppc, lo, hi, auto, hide, hk) ==
    [pause_per_char |-> ppc, min_pause |-> lo, max_pause |-> hi,
     auto_enable |-> auto, hide_subs |-> hide, hotkey |-> hk]

SavedProfiles ==
    { Profile(400, 500, 1000, TRUE, TRUE, Hotkey("KeyP", TRUE)),
      Profile(6000, 3000, 2000, FALSE, FALSE, Hotkey("Space", FALSE)) }

\* ------------------------------------------------------------ text helpers

RECURSIVE TrimStart(_)
TrimStart(s) ==
    IF s # <<>> /\ Head(s) \in Whitespace THEN TrimStart(Tail(s)) ELSE s

RECURSIVE TrimEnd(_)
TrimEnd(s) ==
    IF s # <<>> /\ s[Len(s)] \in Whitespace
    THEN TrimEnd(SubSeq(s, 1, Len(s) - 1)) ELSE s

\* String.prototype.trim
trim(s) == TrimEnd(TrimStart(s))

\* text.replace(/[\n\r]/g, "").replace(/\s+/g, "")
RECURSIVE StripWhitespace(_)
StripWhitespace(s) ==
    IF s = <<>> THEN <<>>
    ELSE IF Head(s) \in Whitespace THEN StripWhitespace(Tail(s))
    ELSE <<Head(s)>> \o StripWhitespace(Tail(s))

\* One global replace of the lazy patterns open.*?close by "": scanning from
\* the left, an opener with a closer after it is removed up to its first
\* closer; an opener with no closer stays.
RECURSIVE StripPairs(_, _)
StripPairs(s, pairs) ==
    IF s = <<>> THEN <<>>
    ELSE LET closers == { j \in 2..Len(s) :
                            \E p \in pairs : p[1] = s[1] /\ p[2] = s[j] }
             first == CHOOSE j \in closers : \A k \in closers : j <= k
         IN IF closers # {}
            THEN StripPairs(SubSeq(s, first + 1, Len(s)), pairs)
            ELSE <<s[1]>> \o StripPairs(Tail(s), pairs)

getVisibleCharCount(text) ==
    IF text = <<>> THEN 0
    ELSE Len(StripPairs(StripPairs(StripWhitespace(text), {<<"{", "}">>}),
                        {<<"(", ")">>, <<FullwidthOpen, FullwidthClose>>}))

\* ------------------------------------------------------------------- state

VARIABLES
    settings,     \* the settings object
    state,        \* the state object
    timers,       \* ids of the resume timeouts that are pending
    videoPaused,  \* video.paused
    subClass,     \* class the script has put on the subtitle containers
    platform,     \* currentPlatform
    storage,      \* chrome.storage.sync: {} or {the profile last saved}
    loads,        \* storage.get calls awaiting their callback, oldest first;
                  \* each entry tells whether loadSettings got a callback
    videoExists,  \* document.querySelector(video) finds an element
    observing,    \* startObserver has attached the listeners and observer
    retryPending, \* the retry timeout of startObserver is pending
    listeners,    \* keydown listeners startObserver has added to the document
    mouseTimer,   \* the mousemove throttle timeout is pending
    forwarded,    \* the trimmed text the observer last passed to
                  \* handleSubtitle (history; <<>> before the first)
    calls         \* the calls the last handler made: [fn, arg] with arg
                  \* the delay in ms for setTimeout and 0 otherwise

vars == <<settings, state, timers, videoPaused, subClass, platform, storage,
          loads, videoExists, observing, retryPending, listeners, mouseTimer,
          forwarded, calls>>


\* What the handlers read and write, threaded through them as one record.
World ==
    [settings |-> settings, state |-> state, timers |-> timers,
     videoPaused |-> videoPaused, subClass |-> subClass, calls |-> {}]

Commit(w) ==
    /\ settings' = w.settings
    /\ state' = w.state
    /\ timers' = w.timers
    /\ videoPaused' = w.videoPaused
    /\ subClass' = w.subClass
    /\ calls' = w.calls

CallWith(w, fn, arg) == [w EXCEPT !.calls = @ \cup {[fn |-> fn, arg |-> arg]}]
Call(w, fn) == CallWith(w, fn, 0)

\* The trace cs holds a call of fn.
Called(cs, fn) == \E c \in cs : c.fn = fn

\* ------------------------------------------------------- browser primitives

\* clearTimeout(id): the timeout, if still pending, never fires.
clearTimeout(w, id) ==
    Call([w EXCEPT !.timers = @ \ {id}], "clearTimeout")

\* state.timerId = setTimeout(cb, ms), the browser handing out timer id `id`.
setTimeout(w, id, ms) ==
    CallWith([w EXCEPT !.timers = @ \cup {id}, !.state.timerId = id],
             "setTimeout", ms)

\* The id the browser hands to the next setTimeout: one that is not pending.
FreshTimerId(w) ==
    CHOOSE id \in 1..(MaxTimers + 1) :
        /\ id \notin w.timers
        /\ \A k \in 1..(MaxTimers + 1) : k \notin w.timers => id <= k

\* video.pause()
videoPause(w) == Call([w EXCEPT !.videoPaused = TRUE], "pause")

\* video.play().catch(() => {}): the promise resolves (ok) or is rejected and
\* the rejection is dropped, the video staying as it was.
videoPlay(w, ok) ==
    Call([w EXCEPT !.videoPaused = IF ok THEN FALSE ELSE @], "play")

showOSD(w) == Call(w, "showOSD")

\* ------------------------------------------------------------- content.js

\* PLATFORMS.netflix.toggleUI / PLATFORMS.youtube.toggleUI
toggleUI(w, hide) ==
    IF platform = "netflix" THEN [w EXCEPT !.state.uiHidden = hide] ELSE w

toggleSubtitles(w, forceVisible) ==
    IF ~w.settings.hide_subs /\ forceVisible # TRUE THEN w
    ELSE [w EXCEPT !.subClass =
              IF forceVisible THEN "pl-show-sub" ELSE "pl-hidden-sub"]

restoreUI(w) ==
    IF w.state.uiHidden THEN toggleUI(w, FALSE) ELSE w

\* resumePlayback leaving isPauseLocked as it is.
resumePlaybackKeepsLock(w0, ok) ==
    LET w == Call(w0, "resumePlayback")
        w1 == IF w.state.timerId # NullTimer
              THEN clearTimeout(w, w.state.timerId) ELSE w
        w2 == [w1 EXCEPT !.state.timerId = NullTimer,
                         !.state.isAutoPaused = FALSE]
        w3 == IF w2.settings.hide_subs THEN toggleSubtitles(w2, FALSE) ELSE w2
    IN videoPlay(w3, ok)

\* resumePlayback answering a rejected play with a retry one second later.
resumePlaybackRetries(w0, ok) ==
    LET w == Call(w0, "resumePlayback")
        w1 == IF w.state.timerId # NullTimer
              THEN clearTimeout(w, w.state.timerId) ELSE w
        w2 == [w1 EXCEPT !.state.timerId = NullTimer,
                         !.state.isAutoPaused = FALSE,
                         !.state.isPauseLocked = FALSE]
        w3 == IF w2.settings.hide_subs THEN toggleSubtitles(w2, FALSE) ELSE w2
        w4 == videoPlay(w3, ok)
    IN IF ok THEN w4 ELSE setTimeout(w4, FreshTimerId(w4), 1000)

resumePlayback(w0, ok) ==
    LET w == Call(w0, "resumePlayback")
        w1 == IF w.state.timerId # NullTimer
              THEN clearTimeout(w, w.state.timerId) ELSE w
        w2 == [w1 EXCEPT !.state.timerId = NullTimer,
                         !.state.isAutoPaused = FALSE,
                         !.state.isPauseLocked = FALSE]
        w3 == IF w2.settings.hide_subs THEN toggleSubtitles(w2, FALSE) ELSE w2
    IN videoPlay(w3, ok)

lockPause(w0) ==
    LET w == Call(w0, "lockPause")
        w1 == IF w.state.timerId # NullTimer
              THEN [clearTimeout(w, w.state.timerId)
                        EXCEPT !.state.timerId = NullTimer]
              ELSE w
    IN showOSD([w1 EXCEPT !.state.isPauseLocked = TRUE])

\* PauseDuration without the cap by max_pause.
PauseDurationNoCap(s, chars) ==
    Max(s.min_pause, chars * s.pause_per_char)

\* Math.min(settings.max_pause, Math.max(settings.min_pause,
\*          chars * settings.pause_per_char)) * 1000
PauseDuration(s, chars) ==
    Min(s.max_pause, Max(s.min_pause, chars * s.pause_per_char))

\* executePause without the setTimeout that schedules the resume.
executePauseNoTimer(w1, chars, id) ==
    LET w2 == [w1 EXCEPT !.state.isAutoPaused = TRUE]
        w3 == toggleUI(w2, TRUE)
        w4 == videoPause(w3)
    IN IF w4.settings.hide_subs THEN toggleSubtitles(w4, TRUE) ELSE w4

\* The pause branch of handleSubtitle (from "EXECUTE PAUSE" on).
executePause(w1, chars, id) ==
    LET duration == PauseDuration(w1.settings, chars)
        w2 == [w1 EXCEPT !.state.isAutoPaused = TRUE]
        w3 == toggleUI(w2, TRUE)
        w4 == videoPause(w3)
        w5 == IF w4.settings.hide_subs THEN toggleSubtitles(w4, TRUE) ELSE w4
    IN setTimeout(w5, id, duration)

\* handleSubtitle without the comparison with lastSubText.
handleSubtitleNoDedup(w0, text, id) ==
    LET w == Call(w0, "handleSubtitle") IN
    IF ~w.state.enabled \/ text = <<>> THEN w
    ELSE LET cleanText == trim(text)
             w1 == [w EXCEPT !.state.lastSubText = cleanText]
             chars == getVisibleCharCount(cleanText)
         IN IF chars < w1.settings.min_chars THEN w1
            ELSE executePause(w1, chars, id)

\* handleSubtitle without the min_chars threshold.
handleSubtitleNoMinChars(w0, text, id) ==
    LET w == Call(w0, "handleSubtitle") IN
    IF ~w.state.enabled \/ text = <<>> THEN w
    ELSE LET cleanText == trim(text) IN
         IF cleanText = w.state.lastSubText THEN w
         ELSE executePause([w EXCEPT !.state.lastSubText = cleanText],
                           getVisibleCharCount(cleanText), id)

\* handleSubtitle recording lastSubText after the min_chars threshold.
handleSubtitleRecordsLate(w0, text, id) ==
    LET w == Call(w0, "handleSubtitle") IN
    IF ~w.state.enabled \/ text = <<>> THEN w
    ELSE LET cleanText == trim(text) IN
         IF cleanText = w.state.lastSubText THEN w
         ELSE LET chars == getVisibleCharCount(cleanText)
              IN IF chars < w.settings.min_chars THEN w
                 ELSE executePause([w EXCEPT !.state.lastSubText = cleanText],
                                   chars, id)

handleSubtitle(w0, text, id) ==
    LET w == Call(w0, "handleSubtitle") IN
    IF ~w.state.enabled \/ text = <<>> THEN w
    ELSE LET cleanText == trim(text) IN
         IF cleanText = w.state.lastSubText THEN w
         ELSE LET w1 == [w EXCEPT !.state.lastSubText = cleanText]
                  chars == getVisibleCharCount(cleanText)
              IN IF chars < w1.settings.min_chars THEN w1
                 ELSE executePause(w1, chars, id)

\* The callback of chrome.storage.sync.get in loadSettings; items are the
\* stored values, or the defaults where nothing is stored.
StoredItems(w) ==
    IF storage = {}
    THEN Profile(60, 500, 10000, TRUE, FALSE, w.settings.hotkey)
    ELSE CHOOSE items \in storage : TRUE

\* loadSettingsCallback applying auto_enable on every load, callback or not.
loadSettingsCallbackAlwaysEnables(w, hasCallback) ==
    LET items == StoredItems(w)
        w1 == [w EXCEPT !.settings.pause_per_char = items.pause_per_char,
                        !.settings.min_pause = items.min_pause,
                        !.settings.max_pause = items.max_pause,
                        !.settings.hotkey = items.hotkey,
                        !.settings.hide_subs = items.hide_subs,
                        !.state.enabled = items.auto_enable]
        w2 == IF hasCallback /\ w1.state.enabled THEN showOSD(w1) ELSE w1
    IN IF w2.state.enabled /\ w2.settings.hide_subs /\ ~w2.state.isAutoPaused
       THEN toggleSubtitles(w2, FALSE)
       ELSE toggleSubtitles(w2, TRUE)

loadSettingsCallback(w, hasCallback) ==
    LET items == StoredItems(w)
        w1 == [w EXCEPT !.settings.pause_per_char = items.pause_per_char,
                        !.settings.min_pause = items.min_pause,
                        !.settings.max_pause = items.max_pause,
                        !.settings.hotkey = items.hotkey,
                        !.settings.hide_subs = items.hide_subs]
        w2 == IF hasCallback
              THEN LET w1a == [w1 EXCEPT !.state.enabled = items.auto_enable]
                   IN IF w1a.state.enabled THEN showOSD(w1a) ELSE w1a
              ELSE w1
    IN IF w2.state.enabled /\ w2.settings.hide_subs /\ ~w2.state.isAutoPaused
       THEN toggleSubtitles(w2, FALSE)
       ELSE toggleSubtitles(w2, TRUE)

\* e matches settings.hotkey
MatchesHotkey(w, e) ==
    LET h == w.settings.hotkey
    IN /\ e.code = h.code
       /\ e.ctrlKey = h.ctrlKey
       /\ e.altKey = h.altKey
       /\ e.shiftKey = h.shiftKey
       /\ e.metaKey = h.metaKey

isInteractionKey(e) == e.code = "Space" \/ e.key = "k" \/ e.key = "p"

\* toggleEnabled forcing the subtitles visible before, not after, the resume.
toggleEnabledShowFirst(w, ok) ==
    LET w1 == showOSD([w EXCEPT !.state.enabled = ~@])
    IN IF ~w1.state.enabled
       THEN LET w2 == toggleSubtitles(w1, TRUE)
            IN restoreUI(IF w2.state.isAutoPaused
                         THEN resumePlayback(w2, ok) ELSE w2)
       ELSE IF w1.settings.hide_subs THEN toggleSubtitles(w1, FALSE) ELSE w1

\* The hotkey branch of the keydown listener.
toggleEnabled(w, ok) ==
    LET w1 == showOSD([w EXCEPT !.state.enabled = ~@])
    IN IF ~w1.state.enabled
       THEN LET w2 == IF w1.state.isAutoPaused
                      THEN resumePlayback(w1, ok) ELSE w1
            IN restoreUI(toggleSubtitles(w2, TRUE))
       ELSE IF w1.settings.hide_subs THEN toggleSubtitles(w1, FALSE) ELSE w1

\* interactionKey resuming at the first press, without the lock step.
interactionKeyResumes(w, ok) ==
    resumePlayback(Call(Call(w, "preventDefault"), "stopPropagation"), ok)

\* The interaction-key branch of the keydown listener.
interactionKey(w, ok) ==
    LET w1 == Call(Call(w, "preventDefault"), "stopPropagation")
    IN IF ~w1.state.isPauseLocked THEN lockPause(w1)
       ELSE resumePlayback(w1, ok)

\* keydown taking the interaction branch whether or not a pause is held.
keydownSwallowsInIdle(w, e, ok) ==
    LET w1 == restoreUI(w)
    IN IF MatchesHotkey(w1, e) THEN toggleEnabled(w1, ok)
       ELSE IF ~w1.state.enabled THEN w1
       ELSE IF isInteractionKey(e) THEN interactionKey(w1, ok)
       ELSE w1

\* keydown without the return that ends the hotkey branch.
keydownNoReturn(w, e, ok) ==
    LET w1 == restoreUI(w)
        w2 == IF MatchesHotkey(w1, e) THEN toggleEnabled(w1, ok) ELSE w1
    IN IF ~w2.state.enabled THEN w2
       ELSE IF isInteractionKey(e) /\ w2.state.isAutoPaused
            THEN interactionKey(w2, ok)
       ELSE w2

\* The keydown listener.
keydown(w, e, ok) ==
    LET w1 == restoreUI(w)
    IN IF MatchesHotkey(w1, e) THEN toggleEnabled(w1, ok)
       ELSE IF ~w1.state.enabled THEN w1
       ELSE IF isInteractionKey(e) /\ w1.state.isAutoPaused
            THEN interactionKey(w1, ok)
       ELSE w1

\* The document dispatches a keydown event to the n listeners added to it.
RECURSIVE dispatchKeydown(_, _, _, _)
dispatchKeydown(w, e, ok, n) ==
    IF n = 0 THEN w ELSE dispatchKeydown(keydown(w, e, ok), e, ok, n - 1)

\* The observer callback reaches its call of handleSubtitle(text, video).
Forwards(w, text, throws) ==
    /\ ~(~w.state.enabled \/ (w.videoPaused /\ ~w.state.isAutoPaused))
    /\ ~throws
    /\ text # <<>> /\ Len(text) > 0

\* observerCallback whose catch block also forgets the line seen last.
observerCallbackResetsOnError(w, text, throws, id) ==
    IF ~w.state.enabled \/ (w.videoPaused /\ ~w.state.isAutoPaused) THEN w
    ELSE IF throws THEN [w EXCEPT !.state.lastSubText = <<>>]
    ELSE IF text # <<>> /\ Len(text) > 0 THEN handleSubtitle(w, text, id)
    ELSE w

\* observerCallback without the test for a video paused by the viewer.
observerCallbackNoPausedCheck(w, text, throws, id) ==
    IF ~w.state.enabled THEN w
    ELSE IF throws THEN w
    ELSE IF text # <<>> /\ Len(text) > 0 THEN handleSubtitle(w, text, id)
    ELSE w

\* The MutationObserver callback; text is what currentPlatform.getText()
\* returns, unless it throws.
observerCallback(w, text, throws, id) ==
    IF ~w.state.enabled \/ (w.videoPaused /\ ~w.state.isAutoPaused) THEN w
    ELSE IF throws THEN w
    ELSE IF text # <<>> /\ Len(text) > 0 THEN handleSubtitle(w, text, id)
    ELSE w

\* ------------------------------------------------------------------ initial

\* The module-level settings and state objects, and the first call of
\* startObserver: it attaches at once when the page already has its video
\* element and otherwise waits for its retry timeout.
Init ==
    /\ settings = [pause_per_char |-> 60, min_pause |-> 500,
                   max_pause |-> 2000, min_chars |-> MinChars,
                   hide_subs |-> FALSE, hotkey |-> Hotkey("KeyP", TRUE)]
    /\ state = [enabled |-> FALSE, isAutoPaused |-> FALSE,
                isPauseLocked |-> FALSE, timerId |-> NullTimer,
                lastSubText |-> <<>>, uiHidden |-> FALSE]
    /\ timers = {}
    /\ subClass = "none"
    /\ platform \in {"netflix", "youtube"}
    /\ storage \in {{}} \cup {{p} : p \in SavedProfiles}
    /\ videoExists \in BOOLEAN
    /\ videoPaused = ~videoExists
    /\ observing = videoExists
    /\ retryPending = ~videoExists
    /\ listeners = IF videoExists THEN 1 ELSE 0
    /\ loads = IF videoExists THEN <<TRUE>> ELSE <<>>
    /\ mouseTimer = FALSE
    /\ forwarded = <<>>
    /\ calls = {}

\* ------------------------------------------------------------------ actions

\* The page inserts its video element.
VideoAppears ==
    /\ UNCHANGED <<settings, state, timers, subClass, platform, storage,
                   loads, observing, retryPending, listeners, mouseTimer,
                   forwarded>>
    /\ ~videoExists
    /\ videoExists' = TRUE
    /\ videoPaused' = FALSE
    /\ calls' = {}

\* StartObserverRetry with a startObserver that, finding no video, returns
\* without scheduling its next run.
StartObserverRetryGivesUp ==
    /\ UNCHANGED <<settings, state, timers, videoPaused, subClass, platform,
                   storage, videoExists, mouseTimer, forwarded>>
    /\ retryPending
    /\ retryPending' = FALSE
    /\ observing' = videoExists
    /\ listeners' = IF videoExists THEN listeners + 1 ELSE listeners
    /\ loads' = IF videoExists THEN Append(loads, TRUE) ELSE loads
    /\ calls' = {}

\* The retry timeout of startObserver fires: startObserver runs again, and
\* schedules its next run when it still finds no video.
StartObserverRetry ==
    /\ UNCHANGED <<settings, state, timers, videoPaused, subClass, platform,
                   storage, videoExists, mouseTimer, forwarded>>
    /\ retryPending
    /\ retryPending' = ~videoExists
    /\ observing' = videoExists
    /\ listeners' = IF videoExists THEN listeners + 1 ELSE listeners
    /\ loads' = IF videoExists THEN Append(loads, TRUE) ELSE loads
    /\ calls' = {}

\* The oldest storage.get answers: the callback in loadSettings runs.
LoadSettingsCallback ==
    /\ UNCHANGED <<platform, storage, videoExists, observing, retryPending,
                   listeners, mouseTimer, forwarded>>
    /\ loads # <<>>
    /\ Commit(loadSettingsCallback(World, Head(loads)))
    /\ loads' = Tail(loads)

\* popup.js save: the six keys are stored and UPDATE_SETTINGS reaches the
\* onMessage listener, which calls loadSettings(null).
PopupSave(p) ==
    /\ UNCHANGED <<settings, state, timers, videoPaused, subClass, platform,
                   videoExists, observing, retryPending, listeners,
                   mouseTimer, forwarded>>
    /\ Len(loads) < MaxLoads
    /\ storage' = {p}
    /\ loads' = Append(loads, FALSE)
    /\ calls' = {}

\* A keydown event reaches the capture-phase listener; playOk is whether a
\* video.play() it may request succeeds.
KeyDown(e, playOk) ==
    /\ UNCHANGED <<platform, storage, loads, videoExists, observing,
                   retryPending, listeners, mouseTimer, forwarded>>
    /\ observing
    /\ Commit(dispatchKeydown(World, e, playOk, listeners))

\* MouseMove restoring the UI during an auto-pause as well.
MouseMoveDuringPause ==
    /\ UNCHANGED <<platform, storage, loads, videoExists, observing,
                   retryPending, listeners, forwarded>>
    /\ observing
    /\ IF ~mouseTimer
       THEN Commit(restoreUI(World)) /\ mouseTimer' = TRUE
       ELSE Commit(World) /\ mouseTimer' = mouseTimer

\* A mousemove event reaches the throttled listener.
MouseMove ==
    /\ UNCHANGED <<platform, storage, loads, videoExists, observing,
                   retryPending, listeners, forwarded>>
    /\ observing
    /\ IF ~state.isAutoPaused /\ ~mouseTimer
       THEN Commit(restoreUI(World)) /\ mouseTimer' = TRUE
       ELSE Commit(World) /\ mouseTimer' = mouseTimer

\* The 200 ms throttle timeout of the mousemove listener fires.
MouseTimerFires ==
    /\ UNCHANGED <<settings, state, timers, videoPaused, subClass, platform,
                   storage, loads, videoExists, observing, retryPending,
                   listeners, forwarded>>
    /\ mouseTimer
    /\ mouseTimer' = FALSE
    /\ calls' = {}

\* The MutationObserver delivers a batch of mutations; text is what getText
\* finds in the page now, unless it throws.
Mutation(text, throws) ==
    /\ UNCHANGED <<platform, storage, loads, videoExists, observing,
                   retryPending, listeners, mouseTimer>>
    /\ observing
    /\ LET w == observerCallback(World, text, throws, FreshTimerId(World))
       IN /\ (MaxTimers + 1) \notin w.timers
          /\ Commit(w)
    /\ forwarded' = IF Forwards(World, text, throws) THEN trim(text)
                    ELSE forwarded

\* A pending resume timeout fires: its callback calls resumePlayback(video).
ResumeTimerFires(id, playOk) ==
    /\ UNCHANGED <<platform, storage, loads, videoExists, observing,
                   retryPending, listeners, mouseTimer, forwarded>>
    /\ id \in timers
    /\ Commit(resumePlayback([World EXCEPT !.timers = @ \ {id}], playOk))

\* Some pending resume timeout fires.
TimerCallback ==
    \E id \in timers, playOk \in BOOLEAN : ResumeTimerFires(id, playOk)

\* The viewer pauses or plays the video with the player's own controls.
UserTogglesVideo ==
    /\ UNCHANGED <<settings, state, timers, subClass, platform, storage,
                   loads, videoExists, observing, retryPending, listeners,
                   mouseTimer, forwarded>>
    /\ videoExists
    /\ videoPaused' = ~videoPaused
    /\ calls' = {}

Next ==
    \/ VideoAppears
    \/ StartObserverRetry
    \/ LoadSettingsCallback
    \/ \E p \in SavedProfiles : PopupSave(p)
    \/ \E e \in KeyEvents, playOk \in BOOLEAN : KeyDown(e, playOk)
    \/ MouseMove
    \/ MouseTimerFires
    \/ \E text \in Texts \cup {<<>>} : Mutation(text, FALSE)
    \/ Mutation(<<>>, TRUE)
    \/ TimerCallback
    \/ UserTogglesVideo

Spec == Init /\ [][Next]_vars

\* The browser runs the callback of every timeout that stays pending.
FairSpec == Spec /\ WF_vars(TimerCallback)

\* The browser runs the pending retry timeout of startObserver.
RetryFairSpec == Spec /\ WF_vars(StartObserverRetry)

\* ------------------------------------------------------------------- claims

\* The delay of the setTimeout call in the trace cs (0 when there is none).
ArmedDelay(cs) ==
    IF Called(cs, "setTimeout")
    THEN (CHOOSE c \in cs : c.fn = "setTimeout").arg
    ELSE 0

\* C1: whenever the observer's handleSubtitle call starts an auto-pause for a
\* line with c visible characters, the resume timer is armed for exactly
\* min(max_pause, max(min_pause, c * pause_per_char)) ms, with the settings in
\* force at that moment; and the formula gives 1200, 500 and 10000 ms for
\* c = 20, 2 and 1000 under 60 ms per character, floor 500, cap 10000.
C1_DurationClamped ==
    [][ /\ \A text \in Texts :
             (Called(calls', "setTimeout") /\ Mutation(text, FALSE)) =>
                LET c == getVisibleCharCount(trim(text))
                    scaled == c * settings.pause_per_char
                    floored == IF scaled < settings.min_pause
                               THEN settings.min_pause ELSE scaled
                IN ArmedDelay(calls') =
                       IF floored > settings.max_pause
                       THEN settings.max_pause ELSE floored
        /\ LET s == Profile(60, 500, 10000, TRUE, FALSE, Hotkey("KeyP", TRUE))
           IN /\ PauseDuration(s, 20) = 1200
              /\ PauseDuration(s, 2) = 500
              /\ PauseDuration(s, 1000) = 10000 ]_vars

\* C1 witness: a pause was just started whose delay lies strictly between the
\* floor and the cap (the per-character term decided it).
C1_Witness ==
    /\ Called(calls, "setTimeout")
    /\ state.isAutoPaused
    /\ ArmedDelay(calls) > settings.min_pause
    /\ ArmedDelay(calls) < settings.max_pause

\* The machine's states as section 4.1 of the design names them.
Idle == ~state.isAutoPaused
AutoPaused == state.isAutoPaused /\ ~state.isPauseLocked
Locked == state.isAutoPaused /\ state.isPauseLocked

\* A step in which the last handler left the pause machinery alone: no pause
\* or play call, no timer armed or cleared, the machine's flags as they were.
NoPauseStarted ==
    /\ ~Called(calls', "pause")
    /\ ~Called(calls', "setTimeout")
    /\ timers' = timers
    /\ videoPaused' = videoPaused
    /\ state'.isAutoPaused = state.isAutoPaused
    /\ state'.isPauseLocked = state.isPauseLocked
    /\ state'.timerId = state.timerId

\* A step in which the last handler started an auto-pause: one video.pause
\* call and one timer armed, the machine holding the pause.
PauseStarted ==
    /\ Called(calls', "pause")
    /\ Called(calls', "setTimeout")
    /\ state'.isAutoPaused
    /\ state'.timerId \in timers'
    /\ state'.timerId \notin timers
    /\ videoPaused'

\* The step is the observer callback passing text to handleSubtitle.
SubtitleEvent(text) ==
    /\ Called(calls', "handleSubtitle")
    /\ forwarded' = trim(text)
    /\ Forwards(World, text, FALSE)
    /\ Mutation(text, FALSE)

\* C2: when the observer passes handleSubtitle a text whose trimmed form is
\* the one it passed last, whatever timer, key or other events came between,
\* that second event starts no pause (no video.pause call, no timer armed);
\* a first event with a fresh line of at least min_chars visible characters
\* starts exactly one. So the two events together give exactly one pause.
C2_NoSecondPause ==
    [][ \A text \in Texts :
          SubtitleEvent(text) =>
             IF trim(text) = forwarded
             THEN NoPauseStarted
             ELSE getVisibleCharCount(trim(text)) >= settings.min_chars
                     => PauseStarted ]_vars

\* C2 witness: handleSubtitle has just run on a line long enough to pause and
\* did not pause, because the line is the one already recorded, while the
\* pause the first event started is still held.
C2_Witness ==
    /\ Called(calls, "handleSubtitle")
    /\ ~Called(calls, "pause")
    /\ forwarded = state.lastSubText
    /\ getVisibleCharCount(forwarded) >= settings.min_chars
    /\ AutoPaused
    /\ state.timerId \in timers

\* a occurs in b as a contiguous run of characters.
IsSubstring(a, b) ==
    \E i \in 0..(Len(b) - Len(a)) : SubSeq(b, i + 1, i + Len(a)) = a

\* C3: a subtitle event whose line has fewer than min_chars visible
\* characters starts no pause (flags, timers and video as they were); and when
\* the last line passed was such a short line, a following event whose line
\* contains it and has at least min_chars visible characters starts a pause.
C3_ShortLineIgnored ==
    [][ \A text \in Texts :
          SubtitleEvent(text) =>
             /\ getVisibleCharCount(trim(text)) < settings.min_chars
                   => NoPauseStarted
             /\ ( /\ forwarded # <<>>
                  /\ getVisibleCharCount(forwarded) < settings.min_chars
                  /\ IsSubstring(forwarded, trim(text))
                  /\ getVisibleCharCount(trim(text)) >= settings.min_chars )
                   => PauseStarted ]_vars

\* C3 witness: handleSubtitle has just run on the one-character line "a" with
\* the system enabled and the video playing, and the machine is still Idle.
C3_Witness ==
    /\ Called(calls, "handleSubtitle")
    /\ ~Called(calls, "pause")
    /\ state.enabled
    /\ ~videoPaused
    /\ Idle
    /\ forwarded = <<"a">>
    /\ state.lastSubText = <<"a">>

\* The step is a keydown of e that matches the toggle chord.
ToggleKeyPress(e, ok) == MatchesHotkey(World, e) /\ KeyDown(e, ok)

\* The step is a keydown of an interaction key (Space, k, p) that reaches the
\* listener's interaction branch: it is not the toggle chord, which the
\* listener serves first, and the system is enabled.
InteractionKeyPress(e, ok) ==
    /\ state.enabled
    /\ isInteractionKey(e)
    /\ ~MatchesHotkey(World, e)
    /\ KeyDown(e, ok)

\* C4: a toggle-chord keydown that disables the system while it holds a pause
\* (AutoPaused or Locked) performs the resume in the same step: both flags
\* cleared, timerId null and its timer no longer pending, video.play called;
\* and it leaves the subtitles forced visible, whatever hide_subs is.
C4_DisableResumes ==
    [][ \A e \in KeyEvents, ok \in BOOLEAN :
          (state.enabled /\ state.isAutoPaused /\ ToggleKeyPress(e, ok)) =>
             /\ ~state'.enabled
             /\ ~state'.isAutoPaused
             /\ ~state'.isPauseLocked
             /\ state'.timerId = NullTimer
             /\ state.timerId \notin timers'
             /\ Called(calls', "play")
             /\ (ok => ~videoPaused')
             /\ subClass' = "pl-show-sub" ]_vars

\* C4 witness: the system was just disabled by the hotkey during a pause with
\* hide_subs on: OSD shown, play requested, subtitles forced visible.
C4_Witness ==
    /\ ~state.enabled
    /\ Called(calls, "showOSD")
    /\ Called(calls, "play")
    /\ Called(calls, "clearTimeout")
    /\ settings.hide_subs
    /\ subClass = "pl-show-sub"
    /\ Idle

C6_SinglePressResumes ==
    [][ \A e \in KeyEvents, ok \in BOOLEAN :
          (AutoPaused /\ InteractionKeyPress(e, ok)) =>
             /\ ~state'.isAutoPaused
             /\ Called(calls', "play") ]_vars

\* The step is a subtitle event, a resume-timer callback or a settings reload
\* (the popup saving and notifying, or a storage.get answering): no keydown.
KeylessMachineStep ==
    \/ TimerCallback
    \/ \E text \in Texts \cup {<<>>} : Mutation(text, FALSE)
    \/ Mutation(<<>>, TRUE)
    \/ LoadSettingsCallback
    \/ \E p \in SavedProfiles : PopupSave(p)

\* C7 (as claimed): from a Locked state with the video paused, no subtitle
\* event, timer callback or settings reload ends the lock or starts the
\* video: only a key press does.
C7_LockedUntilKey ==
    [][ (Locked /\ videoPaused /\ KeylessMachineStep) =>
            (state'.isPauseLocked /\ videoPaused') ]_vars

\* C8: under fairness of the timer callbacks, every auto-pause that is held
\* unlocked is followed either by a lock or by the machine dropping the pause
\* with video.play called.
C8_UnlockedPauseResumes ==
    AutoPaused ~> (Locked \/ (Idle /\ Called(calls, "play")))

\* C8 witness: a resume timer has just fired on an unlocked pause: the
\* callback ran resumePlayback with no key involved and the machine is Idle.
C8_Witness ==
    /\ Idle
    /\ state.enabled
    /\ Called(calls, "resumePlayback")
    /\ Called(calls, "play")
    /\ ~Called(calls, "showOSD")
    /\ ~Called(calls, "preventDefault")
    /\ ~videoPaused

\* C9: a DOM mutation delivered while the video is paused and the machine
\* holds no pause changes nothing: no call is made, and state, settings,
\* timers, video and subtitle classes are as before, whatever text the page
\* shows and whether or not extraction would throw.
C9_ManualPauseRespected ==
    [][ \A text \in Texts \cup {<<>>}, throws \in BOOLEAN :
          (videoPaused /\ ~state.isAutoPaused /\ Mutation(text, throws)) =>
             /\ calls' = {}
             /\ UNCHANGED <<state, settings, timers, videoPaused, subClass,
                            forwarded>> ]_vars

\* C9 witness: the system is enabled and has handled subtitles before, the
\* viewer has paused the video (the machine holds no pause, no timer is
\* pending) and the last handler made no call.
C9_Witness ==
    /\ observing
    /\ state.enabled
    /\ videoPaused
    /\ Idle
    /\ timers = {}
    /\ forwarded # <<>>
    /\ calls = {}

\* C10 (as claimed): at most one resume timeout is pending at any time.
C10_AtMostOneTimer == Cardinality(timers) <= 1

\* C11: a keydown matching the toggle chord flips enabled once and takes no
\* part of the interaction-key branch (no preventDefault, stopPropagation or
\* lockPause); the document holds one keydown listener once startObserver has
\* attached and none before; and the same chord pressed again right after
\* gives enabled its value from before the first press.
C11_ToggleFlipsOnce ==
    [][ /\ listeners = (IF observing THEN 1 ELSE 0)
        /\ \A e \in KeyEvents, ok \in BOOLEAN :
              ToggleKeyPress(e, ok) =>
                 /\ state'.enabled = ~state.enabled
                 /\ ~Called(calls', "preventDefault")
                 /\ ~Called(calls', "stopPropagation")
                 /\ ~Called(calls', "lockPause")
                 /\ \A ok2 \in BOOLEAN :
                       dispatchKeydown(World', e, ok2, listeners').state.enabled
                          = state.enabled ]_vars

\* C11 witness: the toggle chord is the interaction key Space and was just
\* pressed during a pause: the system went off and resumed through the hotkey
\* branch, the key was not swallowed and nothing was locked.
C11_Witness ==
    /\ settings.hotkey.code = "Space"
    /\ ~state.enabled
    /\ Called(calls, "showOSD")
    /\ Called(calls, "resumePlayback")
    /\ ~Called(calls, "preventDefault")
    /\ ~Called(calls, "lockPause")
    /\ Idle

\* C12 (as claimed): while enabled with hide_subs on, the subtitle containers
\* are hidden when the machine is Idle and shown when it holds an auto-pause;
\* while disabled they are never hidden.
C12_SubtitlesTrackMachine ==
    /\ (state.enabled /\ settings.hide_subs /\ Idle)
           => subClass = "pl-hidden-sub"
    /\ (state.enabled /\ settings.hide_subs /\ state.isAutoPaused)
           => subClass = "pl-show-sub"
    /\ ~state.enabled => subClass # "pl-hidden-sub"

\* C13 (as claimed): the settings in force always have min_pause <= max_pause.
C13_MinAtMostMax == settings.min_pause <= settings.max_pause

\* C14 (as claimed): a subtitle event with a text other than lastSubText that
\* arrives while the machine holds a pause (AutoPaused or Locked) starts no
\* second pause: no video.pause call, no timer armed, the flags as they were;
\* and video.pause is called only in steps that start from Idle.
C14_NoPauseWhilePaused ==
    [][ /\ \A text \in Texts :
              ( /\ state.isAutoPaused
                /\ SubtitleEvent(text)
                /\ trim(text) # state.lastSubText ) => NoPauseStarted
        /\ Called(calls', "pause") => Idle ]_vars

\* C15 (as claimed): a subtitle event ignored for having fewer than min_chars
\* visible characters leaves lastSubText as it was, and lastSubText changes
\* only in a step that calls video.pause.
C15_LastTextKept ==
    [][ /\ \A text \in Texts :
              ( /\ SubtitleEvent(text)
                /\ getVisibleCharCount(trim(text)) < settings.min_chars )
                 => state'.lastSubText = state.lastSubText
        /\ state'.lastSubText # state.lastSubText
              => Called(calls', "pause") ]_vars

\* C15 (amended): a subtitle event ignored for having fewer than min_chars
\* visible characters starts no pause and leaves lastSubText equal to its
\* trimmed text; lastSubText changes only in a step where the observer passes
\* handleSubtitle a text, and then to that text trimmed.
C15_LastTextRecorded ==
    [][ /\ \A text \in Texts :
              ( /\ SubtitleEvent(text)
                /\ getVisibleCharCount(trim(text)) < settings.min_chars )
                 => /\ state'.lastSubText = trim(text)
                    /\ NoPauseStarted
        /\ state'.lastSubText # state.lastSubText
              => \E text \in Texts :
                    /\ state'.lastSubText = trim(text)
                    /\ SubtitleEvent(text) ]_vars

\* C15 witness: during a held pause the one-character line "a" was passed to
\* handleSubtitle: no pause call was made and lastSubText is now "a", not the
\* line that started the pause.
C15_Witness ==
    /\ Called(calls, "handleSubtitle")
    /\ ~Called(calls, "pause")
    /\ state.isAutoPaused
    /\ state.lastSubText = <<"a">>
    /\ forwarded = <<"a">>

\* C16 (as claimed): once the toggle chord has disabled the system, or an
\* interaction key has locked the pause, no resume timeout armed before is
\* left pending, so none can run the resume action later.
C16_CancellationClearsTimers ==
    [][ \A e \in KeyEvents, ok \in BOOLEAN :
          ( \/ state.enabled /\ ToggleKeyPress(e, ok)
            \/ AutoPaused /\ InteractionKeyPress(e, ok) )
             => timers' = {} ]_vars

\* C17: a keydown of an interaction key (Space, k, p) that is not the toggle
\* chord is swallowed (preventDefault and stopPropagation both called) when
\* the system is enabled and holds a pause (AutoPaused or Locked), and only
\* then; in Idle or while disabled the listener makes no call and changes
\* nothing but uiHidden, which it resets.
C17_SwallowedOnlyInPause ==
    [][ \A e \in KeyEvents, ok \in BOOLEAN :
          ( /\ isInteractionKey(e)
            /\ ~MatchesHotkey(World, e)
            /\ KeyDown(e, ok) ) =>
             IF state.enabled /\ state.isAutoPaused
             THEN /\ Called(calls', "preventDefault")
                  /\ Called(calls', "stopPropagation")
             ELSE /\ calls' = {}
                  /\ state' = [state EXCEPT !.uiHidden = FALSE]
                  /\ UNCHANGED <<settings, timers, videoPaused, subClass>>
      ]_vars

\* C17 witness: an interaction key pressed in Locked was swallowed and resumed
\* playback: the system is enabled and back in Idle.
C17_Witness ==
    /\ Called(calls, "preventDefault")
    /\ Called(calls, "stopPropagation")
    /\ Called(calls, "resumePlayback")
    /\ state.enabled
    /\ Idle

\* The storage.get that startObserver issued has answered: its callback, the
\* only one that sets enabled, has run.
SettingsLoaded == observing /\ \A i \in 1..Len(loads) : ~loads[i]

\* C18 (as claimed): the machine holds an auto-pause only when the video
\* element has been found and the settings load of startObserver has
\* completed.
C18_NoPauseBeforeLoad == state.isAutoPaused => SettingsLoaded

\* The step is the reload an UPDATE_SETTINGS message asked for: the callback
\* of a storage.get issued by loadSettings(null).
SettingsReload == loads # <<>> /\ ~Head(loads) /\ LoadSettingsCallback

\* C19: a settings reload puts the stored pause_per_char, min_pause,
\* max_pause, hotkey and hide_subs in force (min_chars stays) and sets the
\* subtitle class again (hidden when enabled, hide_subs and no pause held,
\* shown otherwise); the state object (enabled, isAutoPaused, isPauseLocked,
\* timerId, lastSubText), the pending timers, the video and the attached
\* observer and keydown listener are as before, and the OSD is not shown.
C19_ReloadKeepsPlaybackState ==
    [][ SettingsReload =>
          LET items == CHOOSE p \in storage : TRUE
          IN /\ settings' = [pause_per_char |-> items.pause_per_char,
                              min_pause |-> items.min_pause,
                              max_pause |-> items.max_pause,
                              min_chars |-> settings.min_chars,
                              hide_subs |-> items.hide_subs,
                              hotkey |-> items.hotkey]
             /\ subClass' = IF state.enabled /\ items.hide_subs /\ Idle
                             THEN "pl-hidden-sub" ELSE "pl-show-sub"
             /\ calls' = {}
             /\ UNCHANGED <<state, timers, videoPaused, observing,
                            retryPending, listeners, forwarded>> ]_vars

\* C19 witness: a reload has answered during a held pause: the saved profile
\* with auto_enable off is in force, yet the system is still enabled and
\* still holds the pause with its timer pending.
C19_Witness ==
    /\ loads = <<>>
    /\ calls = {}
    /\ storage # {}
    /\ \A p \in storage : /\ ~p.auto_enable
                           /\ settings.hotkey = p.hotkey
                           /\ settings.max_pause = p.max_pause
    /\ state.enabled
    /\ AutoPaused
    /\ state.timerId \in timers
    /\ subClass = "pl-show-sub"

\* A step that ran the resume action and left the machine in Idle with
\* nothing scheduled: both flags clear, timerId null and the timer it named
\* not pending, no timer armed by the step, the video as it was.
RejectionAbsorbed ==
    /\ ~state'.isAutoPaused
    /\ ~state'.isPauseLocked
    /\ state'.timerId = NullTimer
    /\ state.timerId \notin timers'
    /\ ~Called(calls', "setTimeout")
    /\ timers' \subseteq timers
    /\ videoPaused' = videoPaused

\* C20: when the play request of the resume action is rejected, whether the
\* resume came from a timer callback, from an interaction key in Locked or
\* from the toggle chord, the step still ends in Idle, arms no timer and
\* leaves the video as it was.
C20_PlayRejectionAbsorbed ==
    [][ /\ \A id \in timers :
              ResumeTimerFires(id, FALSE) => RejectionAbsorbed
        /\ \A e \in KeyEvents :
              (Called(calls', "play") /\ KeyDown(e, FALSE))
                 => RejectionAbsorbed ]_vars

\* C20 witness: play was just requested by the resume action and rejected:
\* the video is still paused, and the machine is in Idle with timerId null.
C20_Witness ==
    /\ Called(calls, "resumePlayback")
    /\ Called(calls, "play")
    /\ videoPaused
    /\ Idle
    /\ state.timerId = NullTimer

\* The observer callback gets past its first line and calls getText.
Extracts == state.enabled /\ ~(videoPaused /\ ~state.isAutoPaused)

\* C21: a mutation callback whose getText throws changes nothing: no call is
\* made, state, settings, timers, video and subtitle classes are as before
\* and the observer stays attached; and in any state, so also after such a
\* failure, a subtitle event that reaches handleSubtitle in Idle with a line
\* other than lastSubText of at least min_chars visible characters starts a
\* pause.
C21_ExtractionFailureIgnored ==
    [][ /\ (Extracts /\ Mutation(<<>>, TRUE)) =>
              /\ calls' = {}
              /\ UNCHANGED <<state, settings, timers, videoPaused, subClass,
                             observing, retryPending, listeners, forwarded>>
        /\ \A text \in Texts :
              ( /\ Idle
                /\ SubtitleEvent(text)
                /\ trim(text) # state.lastSubText
                /\ getVisibleCharCount(trim(text)) >= settings.min_chars )
                 => PauseStarted ]_vars

\* C21 witness: the detector has handled a line before, the system is
\* enabled, Idle and playing, so that a mutation callback does call getText,
\* and the last callback made no call.
C21_Witness ==
    /\ observing
    /\ Extracts
    /\ Idle
    /\ ~videoPaused
    /\ state.lastSubText # <<>>
    /\ calls = {}

\* C22: a run of startObserver that finds no video attaches nothing, issues
\* no settings load and leaves its retry pending; a run that finds the video
\* attaches the observer and one keydown listener and leaves no retry
\* pending; once attached, nothing is attached again; and, the retry timeout
\* being run, a video element that appears leads to the observer attached.
C22_RetryUntilVideo ==
    /\ [][ /\ StartObserverRetry =>
                IF videoExists
                THEN /\ observing' /\ listeners' = 1 /\ ~retryPending'
                     /\ loads' = Append(loads, TRUE)
                ELSE /\ ~observing' /\ listeners' = 0 /\ retryPending'
                     /\ loads' = loads
           /\ ~observing => (retryPending /\ listeners = 0)
           /\ observing =>
                 /\ ~retryPending /\ listeners = 1
                 /\ observing' /\ listeners' = 1 /\ ~retryPending' ]_vars
    /\ (videoExists ~> observing)

\* C22 witness: the page had no video when the script started, the video
\* appeared later and a retry has attached: the settings load it issued is
\* still awaiting its answer, behind a reload the popup asked for earlier.
C22_Witness ==
    /\ observing
    /\ ~retryPending
    /\ listeners = 1
    /\ Len(loads) = 2
    /\ ~loads[1]
    /\ loads[2]

\* What C23 says of pause starts, key presses, mouse moves during a pause and
\* timer-fired resumes: a step that calls video.pause ends with uiHidden set
\* on Netflix (on YouTube toggleUI does nothing); no step that is a keydown
\* ends with uiHidden set; a mousemove while a pause is held and a resume
\* timer firing leave uiHidden as it was.
ChromeSuppressionSteps ==
    /\ Called(calls', "pause") => state'.uiHidden = (platform = "netflix")
    /\ state'.uiHidden =>
          \A e \in KeyEvents, ok \in BOOLEAN : ~KeyDown(e, ok)
    /\ (state.isAutoPaused /\ MouseMove)
          => state'.uiHidden = state.uiHidden
    /\ TimerCallback => state'.uiHidden = state.uiHidden

\* C23 (as claimed): chrome suppression is set at a pause start, lifted by
\* any key press, left alone by a timer-fired resume and by a mousemove
\* during a pause, and lifted by every mousemove outside a pause.
C23_MouseAlwaysLifts ==
    [][ /\ ChromeSuppressionSteps
        /\ (~state.isAutoPaused /\ MouseMove) => ~state'.uiHidden ]_vars

\* C23 (amended): as claimed, except that a mousemove outside a pause lifts
\* the suppression only when the 200 ms throttle timeout of the listener is
\* not pending; while it is pending the mousemove changes nothing.
C23_MouseLiftsUnlessThrottled ==
    [][ /\ ChromeSuppressionSteps
        /\ (~state.isAutoPaused /\ ~mouseTimer /\ MouseMove)
              => (~state'.uiHidden /\ mouseTimer')
        /\ (~state.isAutoPaused /\ mouseTimer /\ MouseMove)
              => (state'.uiHidden = state.uiHidden /\ mouseTimer') ]_vars

\* C23 witness: on Netflix a resume timer has just fired and left the chrome
\* suppressed, while the mousemove throttle is pending: the next mousemove
\* will not lift it.
C23_Witness ==
    /\ platform = "netflix"
    /\ Called(calls, "resumePlayback")
    /\ ~Called(calls, "showOSD")
    /\ ~Called(calls, "preventDefault")
    /\ Idle
    /\ state.uiHidden
    /\ mouseTimer

\* C24: in every state isPauseLocked implies isAutoPaused, and a timerId
\* that is not null implies isAutoPaused.
C24_LockAndTimerWithinPause ==
    /\ state.isPauseLocked => state.isAutoPaused
    /\ state.timerId # NullTimer => state.isAutoPaused

\* C24 witness: a locked pause whose timerId names a pending timer again (a
\* new line arrived after the lock): both flags and the handle are set.
C24_Witness ==
    /\ Locked
    /\ state.timerId # NullTimer
    /\ state.timerId \in timers

\* C25 (as claimed): while enabled is false the machine holds no pause:
\* isAutoPaused and isPauseLocked are false and timerId is null.
C25_DisabledHoldsNoPause ==
    ~state.enabled =>
        /\ ~state.isAutoPaused
        /\ ~state.isPauseLocked
        /\ state.timerId = NullTimer

\* C26 (as claimed): video.play is requested only by a step that starts in a
\* state where isAutoPaused is true.
C26_PlayOnlyFromOwnPause ==
    [][ Called(calls', "play") => state.isAutoPaused ]_vars

====
